---- MODULE Spec2Model ----
(***************************************************************************)
(* WalletTracker (src/solana_tracker.py) and the two callers of its scan   *)
(* in src/app.py (the /api/scan request handler and the periodic           *)
(* scheduler job), as a state machine.                                     *)
(*                                                                         *)
(* Provider answers (get_top_traders, get_wallet_pnl) are inputs: the      *)
(* client methods are not part of the sources, so the answers are drawn    *)
(* from the sets TraderLists and Payloads below.  Of the console output    *)
(* only the writes that can raise are modelled (lines 136 and 194); the    *)
(* wall-clock field last_updated is not modelled.                          *)
(*                                                                         *)
(* No lock guards the tracker.  Every access to an object the threads      *)
(* share (the two dicts, the list of flagged entries and the lists of      *)
(* buyer records) is a step of its own; what a thread computes on its own  *)
(* locals between two accesses belongs to the step of the access before.   *)
(***************************************************************************)
EXTENDS Integers, Sequences, FiniteSets, TLC

(***************************************************************************)
(* Bounds of the model.                                                    *)
(***************************************************************************)
\* entries of a top-trader list
MaxTraders == 2

\* min_buyers of a requested scan
MaxMinBuyers == 2

\* calls of scan_top_traders, by all callers together
MaxScans == 2

(***************************************************************************)
(* Numbers.  A finite number is a decimal fraction m * 10^e, written with  *)
(* m not divisible by 10 (zero is 0 * 10^0; 5 and 5.0 are one number, as   *)
(* 0 and -0.0 are).  The numerals the model writes have at most nine       *)
(* significant digits.  A float the model has no numeral for (more digits, *)
(* a subnormal, a sum that float arithmetic rounds) is Unwritten: it is    *)
(* some float, and nothing more is known of it.                            *)
(***************************************************************************)
Fin(m, e) == [kind |-> "fin", m |-> m, e |-> e]

Inf(sign) == [kind |-> "inf", m |-> sign, e |-> 0]

NaN == [kind |-> "nan", m |-> 0, e |-> 0]

Unwritten == [kind |-> "unwritten", m |-> 0, e |-> 0]

Abs(n) == IF n < 0 THEN 0 - n ELSE n

RECURSIVE Pow(_, _)
Pow(b, k) == IF k = 0 THEN 1 ELSE b * Pow(b, k - 1)

\* the magnitude a numeral of the model can have
Writable(n) == Abs(n) <= 999999999

\* m * 10^e with the trailing zeros of m moved into the exponent
RECURSIVE Dec(_, _)
Dec(m, e) ==
    IF m = 0 THEN Fin(0, 0)
    ELSE IF Abs(m) % 10 = 0 THEN Dec(m \div 10, e + 1)
    ELSE Fin(m, e)

Zero == Dec(0, 0)

\* a binary float holds the number exactly: written as a fraction in lowest
\* terms, its denominator is a power of two (its numerator is below 2^53)
Exact(x) ==
    /\ x.kind = "fin"
    /\ Writable(x.m)
    /\ \/ x.e \in 0..9
       \/ /\ x.e < 0
          /\ x.e >= 0 - 13
          /\ Abs(x.m) % Pow(5, 0 - x.e) = 0

\* m * 10^gap, when it can be written
Scaled(m, gap) == IF gap \in 0..9 /\ Abs(m) <= 999999999 \div Pow(10, gap)
                  THEN [ok |-> TRUE, m |-> m * Pow(10, gap)]
                  ELSE [ok |-> FALSE, m |-> 0]

\* a + b of two finite numbers on a common exponent: [ok, a, b, e]
Aligned(a, b) ==
    LET e == IF a.e <= b.e THEN a.e ELSE b.e
        sa == Scaled(a.m, a.e - e)
        sb == Scaled(b.m, b.e - e)
    IN  [ok |-> sa.ok /\ sb.ok, a |-> sa.m, b |-> sb.m, e |-> e]

\* float addition: exact operands with an exact sum add exactly; any other
\* sum of non-zero finite numbers is rounded, to a float left unwritten
Add(a, b) ==
    CASE a.kind = "nan" \/ b.kind = "nan" -> NaN
      [] a.kind = "unwritten" \/ b.kind = "unwritten" -> Unwritten
      [] a.kind = "inf" /\ b.kind = "inf" -> IF a.m = b.m THEN a ELSE NaN
      [] a.kind = "inf" -> a
      [] b.kind = "inf" -> b
      [] a = Zero -> b
      [] b = Zero -> a
      [] OTHER ->
           LET al == Aligned(a, b)
               r == Dec(al.a + al.b, al.e)
           IN  IF Exact(a) /\ Exact(b) /\ al.ok /\ Writable(al.a + al.b)
                  /\ Exact(r)
               THEN r
               ELSE Unwritten

\* a < b, for finite numbers that can be written on a common exponent
Less(a, b) ==
    /\ a.kind = "fin"
    /\ b.kind = "fin"
    /\ Aligned(a, b).ok
    /\ Aligned(a, b).a < Aligned(a, b).b

(***************************************************************************)
(* JSON / Python values of provider payload fields.  A field of a dict is  *)
(* absent (Missing), null (NoneV), a number or a string.                   *)
(***************************************************************************)
Missing == [tag |-> "missing", n |-> Zero, s |-> ""]
NoneV == [tag |-> "none", n |-> Zero, s |-> ""]
Num(n) == [tag |-> "num", n |-> Dec(n, 0), s |-> ""]
Str(s) == [tag |-> "str", n |-> Zero, s |-> s]

\* Python truth value of a field value
Truthy(v) ==
    CASE v.tag = "num" -> v.n # Zero
      [] v.tag = "str" -> v.s # ""
      [] OTHER -> FALSE

\* Python `a or b`
Or(a, b) == IF Truthy(a) THEN a ELSE b

\* dict.get(key, default)
Get(d, k, default) == IF d[k].tag = "missing" THEN default ELSE d[k]

\* dict.get(key)
GetN(d, k) == Get(d, k, NoneV)

(***************************************************************************)
(* float() of a string (lines 39-43, 69-72).  The text is read character   *)
(* by character, as float() reads it: white space around it is dropped;    *)
(* then an optional sign and either inf, infinity or nan in any case, or   *)
(* digits with an optional point and an optional exponent, where single    *)
(* underscores may stand between digits.  Texts are of printable ASCII     *)
(* characters, tabs, line feeds, form feeds and carriage returns.          *)
(***************************************************************************)
Char(s, i) == SubSeq(s, i, i)

Spaces == {" ", "\t", "\n", "\f", "\r"}

Digits == {"0", "1", "2", "3", "4", "5", "6", "7", "8", "9"}

DigitValue(c) == CHOOSE n \in 0..9 : ToString(n) = c

\* str.lower() of one character
Lower(c) ==
    IF \E i \in 1..26 : Char("ABCDEFGHIJKLMNOPQRSTUVWXYZ", i) = c
    THEN Char("abcdefghijklmnopqrstuvwxyz",
              CHOOSE i \in 1..26 : Char("ABCDEFGHIJKLMNOPQRSTUVWXYZ", i) = c)
    ELSE c

RECURSIVE LowerStr(_)
LowerStr(s) ==
    IF Len(s) = 0 THEN ""
    ELSE Lower(Char(s, 1)) \o LowerStr(SubSeq(s, 2, Len(s)))

\* the index after a run of digits and single underscores between digits
\* that begins at i
RECURSIVE DigitRest(_, _)
DigitRest(s, i) ==
    IF i <= Len(s) /\ Char(s, i) \in Digits THEN DigitRest(s, i + 1)
    ELSE IF i + 1 <= Len(s) /\ Char(s, i) = "_" /\ Char(s, i + 1) \in Digits
         THEN DigitRest(s, i + 2)
    ELSE i

\* the index after the digit part that begins at i (i itself if none does)
DigitRun(s, i) ==
    IF i <= Len(s) /\ Char(s, i) \in Digits THEN DigitRest(s, i + 1) ELSE i

\* the digits of s from i up to j - 1, underscores left out
RECURSIVE DigitSeq(_, _, _)
DigitSeq(s, i, j) ==
    IF i >= j THEN << >>
    ELSE IF Char(s, i) \in Digits
         THEN <<DigitValue(Char(s, i))>> \o DigitSeq(s, i + 1, j)
    ELSE DigitSeq(s, i + 1, j)

RECURSIVE DropLeadingZeros(_)
DropLeadingZeros(d) ==
    IF Len(d) > 0 /\ d[1] = 0 THEN DropLeadingZeros(Tail(d)) ELSE d

RECURSIVE DropTrailingZeros(_)
DropTrailingZeros(d) ==
    IF Len(d) > 0 /\ d[Len(d)] = 0
    THEN DropTrailingZeros(SubSeq(d, 1, Len(d) - 1))
    ELSE d

\* the number a sequence of at most nine digits writes
RECURSIVE IntOf(_, _, _)
IntOf(d, i, acc) ==
    IF i > Len(d) THEN acc ELSE IntOf(d, i + 1, 10 * acc + d[i])

\* the exponent a digit sequence writes; more than six digits write an
\* exponent beyond every float, taken as a million
ExponentOf(d) ==
    LET sig == DropLeadingZeros(d)
    IN  IF Len(sig) > 6 THEN 1000000 ELSE IntOf(sig, 1, 0)

\* d against the digits b, digit by digit, zeros added at the right of d:
\* -1 when d writes less, 1 when more, 0 when the digits of b are those of d
RECURSIVE Compare(_, _, _)
Compare(d, b, i) ==
    IF i > Len(b) THEN 0
    ELSE LET x == IF i <= Len(d) THEN d[i] ELSE 0
         IN  IF x < b[i] THEN 0 - 1
             ELSE IF x > b[i] THEN 1
             ELSE Compare(d, b, i + 1)

\* the first digits of 2^1024 - 2^970 (an integer of 309 digits), from
\* which on a text rounds to inf
OverflowDigits == <<1, 7, 9, 7, 6, 9, 3, 1, 3, 4, 8, 6, 2, 3, 1, 5, 8, 0, 7,
                    9, 3, 7, 2, 8>>

\* the first digits of 2^-1075 (2.47...e-324), up to which a text rounds
\* to zero
UnderflowDigits == <<2, 4, 7, 0, 3, 2, 8, 2, 2, 9, 2, 0, 6, 2, 3, 2, 7, 2, 0,
                     8, 8, 2, 8, 4>>

\* the digits d write less than the number b gives the first digits of
\* (which has further digits, not all zero)
Below(d, b) == Compare(d, b, 1) < 0 \/ (Compare(d, b, 1) = 0 /\ Len(d) <= Len(b))

Above(d, b) == Compare(d, b, 1) > 0

\* the float of sign, mantissa digits (as an integer) and decimal exponent
\* of the integer: overflow gives inf, underflow zero
Rounded(sign, mant, exp) ==
    LET lead == DropLeadingZeros(mant)
        sig == DropTrailingZeros(lead)
        e == exp + (Len(lead) - Len(sig))
        sci == e + Len(sig) - 1
    IN  IF sig = << >> THEN Zero
        ELSE IF sci >= 309 \/ (sci = 308 /\ Above(sig, OverflowDigits))
        THEN Inf(sign)
        ELSE IF sci <= 0 - 325 \/ (sci = 0 - 324 /\ Below(sig, UnderflowDigits))
        THEN Zero
        ELSE IF Len(sig) > 9 \/ sci <= 0 - 308 THEN Unwritten
        ELSE Fin(sign * IntOf(sig, 1, 0), e)

\* results of float(s): [ok, value]; ok is FALSE when it raises ValueError
Parsed(value) == [ok |-> TRUE, value |-> value]

NotParsed == [ok |-> FALSE, value |-> Zero]

SignOf(c) == IF c = "-" THEN 0 - 1 ELSE 1

\* the character at i is one of cs
HasChar(s, i, cs) == i >= 1 /\ i <= Len(s) /\ Char(s, i) \in cs

\* the number written with the digits of s from i0 to a - 1 before the
\* point and from b0 to b - 1 after it, times ten to the exp
Written(s, sign, i0, a, b0, b, exp) ==
    Parsed(Rounded(sign, DigitSeq(s, i0, a) \o DigitSeq(s, b0, b),
                   exp - Len(DigitSeq(s, b0, b))))

\* the exponent part, its digits beginning at c0: they end the text
ParseExponent(s, sign, i0, a, b0, b, c0) ==
    IF DigitRun(s, c0) > c0 /\ DigitRun(s, c0) = Len(s) + 1
    THEN Written(s, sign, i0, a, b0, b,
                 SignOf(Char(s, c0 - 1))
                    * ExponentOf(DigitSeq(s, c0, DigitRun(s, c0))))
    ELSE NotParsed

\* the text after the digits, which end before b: nothing, or an exponent
\* part; there must be a digit before or after the point
ParseTail(s, sign, i0, a, b0, b) ==
    IF ~(a > i0 \/ b > b0) THEN NotParsed
    ELSE IF b = Len(s) + 1 THEN Written(s, sign, i0, a, b0, b, 0)
    ELSE IF HasChar(s, b, {"e", "E"})
    THEN ParseExponent(s, sign, i0, a, b0, b,
                       IF HasChar(s, b + 1, {"+", "-"}) THEN b + 2 ELSE b + 1)
    ELSE NotParsed

\* the digits after the point, if there is one where the first digits end
ParseFraction(s, sign, i0, a) ==
    IF HasChar(s, a, {"."})
    THEN ParseTail(s, sign, i0, a, a + 1, DigitRun(s, a + 1))
    ELSE ParseTail(s, sign, i0, a, a, a)

\* the text after the sign, beginning at i0
ParseUnsigned(s, sign, i0) ==
    IF LowerStr(SubSeq(s, i0, Len(s))) \in {"inf", "infinity"}
    THEN Parsed(Inf(sign))
    ELSE IF LowerStr(SubSeq(s, i0, Len(s))) = "nan" THEN Parsed(NaN)
    ELSE ParseFraction(s, sign, i0, DigitRun(s, i0))

ParseStripped(s) ==
    IF HasChar(s, 1, {"+", "-"}) THEN ParseUnsigned(s, SignOf(Char(s, 1)), 2)
    ELSE ParseUnsigned(s, 1, 1)

\* float(text): the white space around the text is dropped first
RECURSIVE ParseFloat(_)
ParseFloat(text) ==
    IF HasChar(text, 1, Spaces)
    THEN ParseFloat(SubSeq(text, 2, Len(text)))
    ELSE IF HasChar(text, Len(text), Spaces)
    THEN ParseFloat(SubSeq(text, 1, Len(text) - 1))
    ELSE ParseStripped(text)

\* float(v) raises TypeError on None and ValueError on text that is no number
FloatRaises(v) ==
    CASE v.tag = "num" -> FALSE
      [] v.tag = "str" -> ~ParseFloat(v.s).ok
      [] OTHER -> TRUE

\* float(v): a number as it is, a numeric text parsed
Float(v) == IF v.tag = "str" THEN ParseFloat(v.s).value ELSE v.n

(***************************************************************************)
(* Raw position entries of a payload.                                      *)
(***************************************************************************)
\* an entry with none of the keys the code reads (lines 30-43, 59-72)
EmptyPos ==
    [k \in {"tokenAddress", "mint", "address", "tokenSymbol", "tokenName",
            "balance", "currentBalance", "unrealizedPnL", "pnl",
            "unrealizedPnLPercent", "avgBuyPrice", "currentPrice",
            "realizedPnL", "realizedPnLPercent", "avgSellPrice"} |-> Missing]

\* lists of a payload: absent, null or a sequence of raw entries
NoList == [tag |-> "missing", items |-> << >>]
List(items) == [tag |-> "list", items |-> items]

ListTruthy(l) == l.tag = "list" /\ Len(l.items) > 0

\* the nested "data" object: absent, null or a dict with the two sub-lists
NoData == [tag |-> "missing", openPositions |-> NoList, closedPositions |-> NoList]
Data(o, c) == [tag |-> "dict", openPositions |-> o, closedPositions |-> c]

\* what the call of get_wallet_pnl (line 15) does: it raises, or it answers
\* None, a non-dict container or a dict.  The SolanaAPIClient of
\* src/api_client.py, which line 8 builds, has no method get_wallet_pnl: with
\* it the attribute lookup of line 15 raises AttributeError
RaisingFetch == [kind |-> "raise", openPositions |-> NoList,
                 closedPositions |-> NoList, data |-> NoData]
NonePayload == [kind |-> "none", openPositions |-> NoList,
                closedPositions |-> NoList, data |-> NoData]
ListPayload == [kind |-> "list", openPositions |-> NoList,
                closedPositions |-> NoList, data |-> NoData]
Dict(o, c, d) == [kind |-> "dict", openPositions |-> o,
                  closedPositions |-> c, data |-> d]

\* `not pnl_data`: None and the empty dict are falsy
PayloadFalsy(p) ==
    \/ p.kind = "none"
    \/ /\ p.kind = "dict"
       /\ p.openPositions.tag = "missing"
       /\ p.closedPositions.tag = "missing"
       /\ p.data.tag = "missing"

(***************************************************************************)
(* WalletTracker.token_buyers: a defaultdict token -> list of buyer        *)
(* records, in insertion order of its keys: a sequence of entries          *)
(* [token, id, buyers].  A key is the token address as the payload gives   *)
(* it (a string, or a number).  id names the list object that is the       *)
(* value: a list outlives the dict's clear() in whatever still refers to   *)
(* it (a flagged entry, a thread's local), and every reference to one list *)
(* carries its id and shows its contents.                                  *)
(***************************************************************************)
TokensOf(tb) == {tb[i].token : i \in 1..Len(tb)}

IndexOf(tb, token) == CHOOSE i \in 1..Len(tb) : tb[i].token = token

BuyersOf(tb, token) ==
    IF token \in TokensOf(tb) THEN tb[IndexOf(tb, token)].buyers ELSE << >>

IdsOf(tb) == {tb[i].id : i \in 1..Len(tb)}

\* the name of a list object made now: the least one no reference carries
NewId(used) ==
    CHOOSE i \in 1..(Cardinality(used) + 1) :
        i \notin used /\ \A j \in 1..(i - 1) : j \in used

\* self.token_buyers[token_address] on the defaultdict(list): the list of
\* the key, made and inserted when the key is missing: [tb, id]
GetList(tb, token, used) ==
    IF token \in TokensOf(tb)
    THEN [tb |-> tb, id |-> tb[IndexOf(tb, token)].id]
    ELSE LET id == NewId(used)
         IN  [tb |-> Append(tb, [token |-> token, id |-> id, buyers |-> << >>]),
              id |-> id]

\* list.append(rec) on the list object id, seen through the dict
ListAppend(tb, id, rec) ==
    [i \in 1..Len(tb) |->
        IF tb[i].id = id THEN [tb[i] EXCEPT !.buyers = Append(@, rec)]
        ELSE tb[i]]

\* A flagged entry holds the list object of self.token_buyers[token] itself
\* (line 189): an append of line 48 or 77 to that list shows in every entry
\* that holds it
SyncAppend(entries, id, rec) ==
    [i \in 1..Len(entries) |->
        IF entries[i].buyers_id = id
        THEN [entries[i] EXCEPT !.buyers = Append(@, rec)]
        ELSE entries[i]]

EntryIds(entries) == {entries[i].buyers_id : i \in 1..Len(entries)}

(***************************************************************************)
(* analyze_wallet_trades: the normalizer.                                  *)
(***************************************************************************)

\* pos.get('tokenAddress') or pos.get('mint') or pos.get('address')
TokenAddress(pos) ==
    Or(Or(GetN(pos, "tokenAddress"), GetN(pos, "mint")), GetN(pos, "address"))

\* pos.get(k1, 0) or pos.get(k2, 0) or 0
Num2(pos, k1, k2) == Or(Or(Get(pos, k1, Num(0)), Get(pos, k2, Num(0))), Num(0))

\* pos.get(k, 0) or 0
Num1(pos, k) == Or(Get(pos, k, Num(0)), Num(0))

\* pnl_data.get(key, []) or pnl_data.get('data', {}).get(key, [])
\* result [raised, items]; iterating a null list raises TypeError
SubList(p, key) ==
    IF ListTruthy(p[key])
    THEN [raised |-> FALSE, items |-> p[key].items]
    ELSE CASE p.data.tag = "missing" -> [raised |-> FALSE, items |-> << >>]
           [] p.data.tag = "none" -> [raised |-> TRUE, items |-> << >>]
           [] OTHER ->
                IF p.data[key].tag = "none"
                THEN [raised |-> TRUE, items |-> << >>]
                ELSE [raised |-> FALSE, items |-> p.data[key].items]

\* lines 34-44
OpenPositionInfo(pos) ==
    [token_address |-> TokenAddress(pos),
     symbol |-> Get(pos, "tokenSymbol", Str("UNKNOWN")),
     name |-> Get(pos, "tokenName", Str("Unknown")),
     status |-> "holding",
     balance |-> Float(Num2(pos, "balance", "currentBalance")),
     unrealized_pnl |-> Float(Num2(pos, "unrealizedPnL", "pnl")),
     unrealized_pnl_percent |-> Float(Num1(pos, "unrealizedPnLPercent")),
     avg_buy_price |-> Float(Num1(pos, "avgBuyPrice")),
     current_price |-> Float(Num1(pos, "currentPrice"))]

OpenRaises(pos) ==
    \/ FloatRaises(Num2(pos, "balance", "currentBalance"))
    \/ FloatRaises(Num2(pos, "unrealizedPnL", "pnl"))
    \/ FloatRaises(Num1(pos, "unrealizedPnLPercent"))
    \/ FloatRaises(Num1(pos, "avgBuyPrice"))
    \/ FloatRaises(Num1(pos, "currentPrice"))

\* lines 48-54
OpenBuyerRecord(wallet, info) ==
    [wallet |-> wallet,
     status |-> "holding",
     pnl |-> info.unrealized_pnl,
     pnl_percent |-> info.unrealized_pnl_percent,
     balance |-> info.balance]

\* lines 63-73
ClosedPositionInfo(pos) ==
    [token_address |-> TokenAddress(pos),
     symbol |-> Get(pos, "tokenSymbol", Str("UNKNOWN")),
     name |-> Get(pos, "tokenName", Str("Unknown")),
     status |-> "sold",
     balance |-> Zero,
     realized_pnl |-> Float(Num2(pos, "realizedPnL", "pnl")),
     realized_pnl_percent |-> Float(Num1(pos, "realizedPnLPercent")),
     avg_buy_price |-> Float(Num1(pos, "avgBuyPrice")),
     avg_sell_price |-> Float(Num1(pos, "avgSellPrice"))]

ClosedRaises(pos) ==
    \/ FloatRaises(Num2(pos, "realizedPnL", "pnl"))
    \/ FloatRaises(Num1(pos, "realizedPnLPercent"))
    \/ FloatRaises(Num1(pos, "avgBuyPrice"))
    \/ FloatRaises(Num1(pos, "avgSellPrice"))

\* lines 77-83
ClosedBuyerRecord(wallet, info) ==
    [wallet |-> wallet,
     status |-> "sold",
     pnl |-> info.realized_pnl,
     pnl_percent |-> info.realized_pnl_percent,
     balance |-> Zero]

\* a loop that records open positions only
RecordClosedNothing(tb, id, wallet, info) == tb

\* the append of lines 77-83 to the list id: the closed position is recorded
RecordClosed(tb, id, wallet, info) ==
    ListAppend(tb, id, ClosedBuyerRecord(wallet, info))

\* the append of lines 48-54 to the list id: the open position is recorded
RecordOpen(tb, id, wallet, info) ==
    ListAppend(tb, id, OpenBuyerRecord(wallet, info))

\* the loops of lines 29 and 58 are told apart by part: "open" or "closed"
PositionInfo(part, pos) ==
    IF part = "open" THEN OpenPositionInfo(pos) ELSE ClosedPositionInfo(pos)

PositionRaises(part, pos) ==
    IF part = "open" THEN OpenRaises(pos) ELSE ClosedRaises(pos)

BuyerRecord(part, wallet, info) ==
    IF part = "open" THEN OpenBuyerRecord(wallet, info)
    ELSE ClosedBuyerRecord(wallet, info)

Record(tb, id, part, wallet, info) ==
    IF part = "open" THEN RecordOpen(tb, id, wallet, info)
    ELSE RecordClosed(tb, id, wallet, info)

\* line 28 or line 57
PartList(p, part) ==
    SubList(p, IF part = "open" THEN "openPositions" ELSE "closedPositions")

CountStatus(positions, status) ==
    Cardinality({i \in 1..Len(positions) : positions[i].status = status})

\* lines 18-22
NoDataResult(wallet) ==
    [wallet |-> wallet, status |-> "no_data", positions |-> << >>]

\* lines 85-93
WalletData(wallet, positions) ==
    [wallet |-> wallet,
     status |-> IF Len(positions) > 0 THEN "active" ELSE "inactive",
     total_positions |-> Len(positions),
     open_positions |-> CountStatus(positions, "holding"),
     closed_positions |-> CountStatus(positions, "sold"),
     positions |-> positions]

\* value standing for "no value returned: the call raised"
Raised(wallet) == [wallet |-> wallet, status |-> "raised", positions |-> << >>]

\* Where the call stands when it next touches self.token_buyers, or how it
\* ends.  at is "record": entry k of the part has its position_info, which
\* is appended to positions (lines 34-45), and line 48 or 77 comes next;
\* "raised": an exception leaves the call; "return": line 95 or line 18.
Outcome(at, part, k, positions, info, wallet_data) ==
    [at |-> at, part |-> part, k |-> k, positions |-> positions,
     info |-> info, wallet_data |-> wallet_data]

\* the loops of lines 29-45 and 58-74 from entry k of the part on, with the
\* local positions list as it stands
RECURSIVE Seek(_, _, _, _, _)
Seek(wallet, p, part, k, positions) ==
    LET l == PartList(p, part)
    IN  IF l.raised
        THEN Outcome("raised", part, k, positions, EmptyPos, Raised(wallet))
        ELSE IF k > Len(l.items)
        THEN IF part = "open" THEN Seek(wallet, p, "closed", 1, positions)
             ELSE Outcome("return", part, k, positions, EmptyPos,
                          WalletData(wallet, positions))
        ELSE IF ~Truthy(TokenAddress(l.items[k]))
        THEN Seek(wallet, p, part, k + 1, positions)
        ELSE IF PositionRaises(part, l.items[k])
        THEN Outcome("raised", part, k, positions, EmptyPos, Raised(wallet))
        ELSE LET info == PositionInfo(part, l.items[k])
             IN  Outcome("record", part, k, Append(positions, info), info,
                         Raised(wallet))

\* lines 15-28: the call from its start; the exception of line 15, or the
\* one of pnl_data.get on a container that is no dict (line 28), leaves it
Start(wallet, p) ==
    IF p.kind = "raise"
    THEN Outcome("raised", "open", 1, << >>, EmptyPos, Raised(wallet))
    ELSE IF PayloadFalsy(p)
    THEN Outcome("return", "open", 1, << >>, EmptyPos, NoDataResult(wallet))
    ELSE IF p.kind = "list"
    THEN Outcome("raised", "open", 1, << >>, EmptyPos, Raised(wallet))
    ELSE Seek(wallet, p, "open", 1, << >>)

\* the rest of a call that no other thread interrupts: [raised, wallet_data, tb]
RECURSIVE Run(_, _, _, _)
Run(o, wallet, p, tb) ==
    IF o.at = "record"
    THEN LET g == GetList(tb, o.info.token_address, IdsOf(tb))
         IN  Run(Seek(wallet, p, o.part, o.k + 1, o.positions), wallet, p,
                 Record(g.tb, g.id, o.part, wallet, o.info))
    ELSE [raised |-> o.at = "raised", wallet_data |-> o.wallet_data, tb |-> tb]

\* analyze_wallet_trades(wallet) when get_wallet_pnl answers pnl_data,
\* self.token_buyers is tb and no other thread runs: [raised, wallet_data, tb]
analyze_wallet_trades(wallet, pnl_data, tb) ==
    Run(Start(wallet, pnl_data), wallet, pnl_data, tb)

(***************************************************************************)
(* WalletTracker.tracked_wallets: a dict wallet -> wallet_data, in         *)
(* insertion order of its keys (a sequence of wallet_data records).        *)
(***************************************************************************)
WalletsOf(tw) == {tw[i].wallet : i \in 1..Len(tw)}

\* self.tracked_wallets[wallet_address] = wallet_data (line 142)
StoreWallet(tw, wd) ==
    IF wd.wallet \in WalletsOf(tw)
    THEN [i \in 1..Len(tw) |-> IF tw[i].wallet = wd.wallet THEN wd ELSE tw[i]]
    ELSE Append(tw, wd)

(***************************************************************************)
(* scan_top_traders, step 3 (lines 160-197).                               *)
(***************************************************************************)

\* inner loop of lines 168-172: the first position of wd for the token
MatchIn(wd, token) ==
    {j \in 1..Len(wd.positions) : wd.positions[j].token_address = token}

FirstMatch(wd, token) ==
    wd.positions[CHOOSE j \in MatchIn(wd, token) :
                    \A k \in MatchIn(wd, token) : j <= k]

\* lines 168-172 for one wallet_data: [symbol, name] after it
SymbolStep(acc, wd, token) ==
    IF MatchIn(wd, token) = {} THEN acc
    ELSE [symbol |-> FirstMatch(wd, token).symbol,
          name |-> FirstMatch(wd, token).name]

\* lines 163-172: [symbol, name] after the loop over tracked_wallets.values()
RECURSIVE SymbolAndName(_, _, _, _)
SymbolAndName(tw, token, i, acc) ==
    IF i > Len(tw) THEN acc
    ELSE SymbolAndName(tw, token, i + 1, SymbolStep(acc, tw[i], token))

\* sum(b['pnl'] for b in buyers), from the integer 0 on, left to right
RECURSIVE SumPnl(_, _, _)
SumPnl(buyers, i, acc) ==
    IF i > Len(buyers) THEN acc
    ELSE SumPnl(buyers, i + 1, Add(acc, buyers[i].pnl))

\* lines 181-190; avg_pnl is the quotient sum / len, kept as the pair
\* <<sum, len>>; buyers is the list object buyers_id
Flagged(token, symbol, name, total, holding, sold, avg, buyers, id) ==
    [token_address |-> token,
     symbol |-> symbol,
     name |-> name,
     total_buyers |-> total,
     still_holding |-> holding,
     sold_out |-> sold,
     avg_pnl |-> avg,
     buyers |-> buyers,
     buyers_id |-> id]

\* lines 163-190 when no other thread runs: every line reads the same list
FlaggedEntry(token, id, buyers, tw) ==
    LET sn == SymbolAndName(tw, token, 1,
                [symbol |-> buyers[1].wallet, name |-> Str("Unknown")])
    IN  Flagged(token, sn.symbol, sn.name, Len(buyers),
                CountStatus(buyers, "holding"), CountStatus(buyers, "sold"),
                <<SumPnl(buyers, 1, Zero), Len(buyers)>>, buyers, id)

\* line 161 with the threshold compared the wrong way round (strictly greater)
MeetsThresholdStrict(buyers, mb) == Len(buyers) > mb

\* line 161
MeetsThreshold(buyers, mb) == Len(buyers) >= mb

\* lines 160-192: self.flagged_tokens after the whole loop over
\* token_buyers.items(), when no console write raises and no other thread
\* runs
RECURSIVE AppendFlagged(_, _, _, _, _)
AppendFlagged(ft, tb, tw, mb, i) ==
    IF i > Len(tb) THEN ft
    ELSE AppendFlagged(
            IF MeetsThreshold(tb[i].buyers, mb)
            THEN Append(ft, FlaggedEntry(tb[i].token, tb[i].id, tb[i].buyers, tw))
            ELSE ft,
            tb, tw, mb, i + 1)

\* line 194: the format specification of {token_symbol:15} raises TypeError
\* on None
SymbolFormatRaises(symbol) == symbol.tag = "none"

\* number of entries of ft that go before a new entry e in a descending
\* stable order: those with a key >= e's
Before(ft, e) ==
    Cardinality({i \in 1..Len(ft) : ft[i].total_buyers >= e.total_buyers})

RECURSIVE SortFrom(_, _, _)
SortFrom(acc, ft, i) ==
    IF i > Len(ft) THEN acc
    ELSE SortFrom(SubSeq(acc, 1, Before(acc, ft[i])) \o <<ft[i]>>
                    \o SubSeq(acc, Before(acc, ft[i]) + 1, Len(acc)),
                  ft, i + 1)

Reverse(ft) == [i \in 1..Len(ft) |-> ft[Len(ft) + 1 - i]]

\* a sort that is ascending and then reversed: equal keys come out reversed
SortByBuyersReversed(ft) == SortFrom(<< >>, Reverse(ft), 1)

\* line 197: list.sort(key=total_buyers, reverse=True), a stable sort
SortByBuyers(ft) == SortFrom(<< >>, ft, 1)

(***************************************************************************)
(* Provider answers.                                                       *)
(***************************************************************************)

\* entries of the top-trader list: W1 under 'wallet', W2 under 'address'
\* (with an empty 'wallet'), and an entry that carries no address at all
W1Trader == [wallet |-> Str("W1"), address |-> Missing, totalPnl |-> Num(3)]
W2Trader == [wallet |-> Str(""), address |-> Str("W2"), totalPnl |-> Missing]
NoAddressTrader == [wallet |-> Missing, address |-> NoneV, totalPnl |-> NoneV]

\* entries the progress line of line 136 cannot format: a textual totalPnl
\* and a wallet that is a number
BadPnlTrader == [wallet |-> Str("W1"), address |-> Missing, totalPnl |-> Str("abc")]
NumberTrader == [wallet |-> Num(5), address |-> Missing, totalPnl |-> Missing]

TraderEntries == {W1Trader, W2Trader, NoAddressTrader}

BadTraderLists ==
    { [tag |-> "list", items |-> <<W2Trader, BadPnlTrader>>],
      [tag |-> "list", items |-> <<NumberTrader>>] }

RECURSIVE SeqsUpTo(_, _)
SeqsUpTo(S, n) ==
    IF n = 0 THEN {<< >>}
    ELSE LET shorter == SeqsUpTo(S, n - 1)
         IN  shorter \cup {Append(q, e) : q \in shorter, e \in S}

\* get_top_traders answers None or a list of at most MaxTraders entries
NoTraders == [tag |-> "none", items |-> << >>]

TraderLists ==
    {NoTraders} \cup {List(q) : q \in SeqsUpTo(TraderEntries, MaxTraders)}
        \cup BadTraderLists

\* `not top_traders`
TradersFalsy(tt) == ~ListTruthy(tt)

\* trader.get('wallet') or trader.get('address') (line 128)
WalletAddress(trader) == Or(GetN(trader, "wallet"), GetN(trader, "address"))

\* lines 133-136, outside the try: when the progress line is printed (line
\* 135), wallet_address[:8] raises TypeError on a number, and the format
\* {pnl:,.2f} raises ValueError on a string, pnl being
\* trader.get('totalPnl', 0) or 0 (line 133)
ProgressRaises(i, trader) ==
    /\ i <= 10 \/ i % 10 = 0
    /\ \/ WalletAddress(trader).tag # "str"
       \/ Or(Get(trader, "totalPnl", Num(0)), Num(0)).tag = "str"

\* raw position entries
OpenX == [EmptyPos EXCEPT !["tokenAddress"] = Str("X"), !["tokenSymbol"] = Str("SX"),
                          !["balance"] = Num(5), !["unrealizedPnL"] = Num(2)]
OpenX2 == [EmptyPos EXCEPT !["tokenAddress"] = Str("X"), !["tokenSymbol"] = NoneV,
                           !["currentBalance"] = Str("7.5"), !["pnl"] = Str(" +1e0 ")]
OpenY == [EmptyPos EXCEPT !["tokenAddress"] = Str(""), !["mint"] = Str("Y"),
                          !["balance"] = NoneV, !["currentBalance"] = Num(3)]
OpenYBad == [EmptyPos EXCEPT !["address"] = Str("Y"), !["balance"] = Str("abc")]
NoToken == [EmptyPos EXCEPT !["balance"] = Num(1)]
ClosedX == [EmptyPos EXCEPT !["tokenAddress"] = Str("X"), !["realizedPnL"] = Num(4)]
ClosedY == [EmptyPos EXCEPT !["mint"] = Str("Y"), !["pnl"] = Num(-1)]

\* what get_wallet_pnl does
Payloads ==
    { RaisingFetch,
      NonePayload,
      ListPayload,
      Dict(List(<<OpenX>>), List(<<ClosedX>>), NoData),
      Dict(NoList, List(<< >>), Data(List(<<NoToken, OpenY>>), List(<<ClosedY>>))),
      Dict(List(<<OpenX2, OpenX>>), NoList, NoData),
      Dict(List(<<OpenX, OpenYBad>>), NoList, NoData),
      Dict(List(<<NoToken>>), NoList, Data(NoList, NoList)) }

(***************************************************************************)
(* State.                                                                  *)
(***************************************************************************)
\* the callers of tracker.scan_top_traders in src/app.py
Threads == {"request", "scheduler"}

\* min_buyers of the scheduled scan (app.py line 27)
ScheduledMinBuyers == 2

\* min_buyers of a requested scan comes from the request body (app.py line
\* 73); a positive integer is taken, other values being contract violations
MinBuyersOf(t) ==
    IF t = "scheduler" THEN {ScheduledMinBuyers} ELSE 1..MaxMinBuyers

VARIABLES
    tracked_wallets,  \* self.tracked_wallets
    token_buyers,     \* self.token_buyers
    flagged_tokens,   \* self.flagged_tokens
    in_sort,          \* the list self.flagged_tokens is marked as being sorted
    pc,               \* per thread: position in scan_top_traders
    min_buyers,       \* per thread: parameter of the running scan
    top_traders,      \* per thread: local top_traders
    idx,              \* per thread: position of the loop of line 127
    call,             \* per thread: locals of the running analyze_wallet_trades
    iter,             \* per thread: the dict iterator of the loop of line 160
    flag,             \* per thread: locals of the body of the loop of line 160
    saved,            \* per thread: the items list.sort took out of the list
    answers,          \* per thread: the get_wallet_pnl calls of the running scan
    dirty,            \* per thread: the tracker held data when the scan started
    ret,              \* per thread: the object the last call returned
    returned,         \* what the last scan that returned, returned, as noted by an observer
    resp,             \* answer of the last query
    held,             \* a list object a caller kept from an earlier call
    scans             \* the calls of scan_top_traders made so far

vars == <<tracked_wallets, token_buyers, flagged_tokens, in_sort, pc,
          min_buyers, top_traders, idx, call, iter, flag, saved, answers,
          dirty, ret, returned, resp, held, scans>>

tracker == <<tracked_wallets, token_buyers, flagged_tokens, in_sort>>

scan == <<min_buyers, top_traders, answers, dirty>>

outside == <<ret, returned, resp, held, scans>>

NoResp == [op |-> "none", value |-> << >>]

\* pos: the next item of the dict, 0 before the iterator exists; used: the
\* size the dict had when the iterator was made
NoIter == [pos |-> 0, used |-> 0]

\* the locals of analyze_wallet_trades outside a call
NoCall == [wallet |-> Missing, payload |-> NonePayload, part |-> "open",
           k |-> 0, positions |-> << >>, info |-> EmptyPos, id |-> 0,
           wallet_data |-> Raised(Missing)]

\* the locals of the body of the loop of line 160 outside it: token_address,
\* buyers (the list object buyers_id and its contents), token_symbol,
\* token_name, the iterator of line 167 (witer), len(holders), len(sellers),
\* the sum and the len(buyers) of line 179, and the len(buyers) of line 185
NoFlag == [token |-> Missing, buyers_id |-> 0, buyers |-> << >>,
           symbol |-> Missing, name |-> Missing, witer |-> NoIter,
           holders |-> 0, sellers |-> 0, sum |-> Zero, avg_len |-> 0,
           total |-> 0]

NoReturn == [known |-> FALSE, value |-> << >>]

\* obj: which list object is held; seen: its contents when it was handed
\* out; value: its contents now, for an object the tracker no longer uses

Init ==
    /\ tracked_wallets = << >>
    /\ token_buyers = << >>
    /\ flagged_tokens = << >>
    /\ in_sort = FALSE
    /\ pc = [t \in Threads |-> "idle"]
    /\ min_buyers = [t \in Threads |-> 0]
    /\ top_traders = [t \in Threads |-> NoTraders]
    /\ idx = [t \in Threads |-> 0]
    /\ call = [t \in Threads |-> NoCall]
    /\ iter = [t \in Threads |-> NoIter]
    /\ flag = [t \in Threads |-> NoFlag]
    /\ saved = [t \in Threads |-> << >>]
    /\ answers = [t \in Threads |-> << >>]
    /\ dirty = [t \in Threads |-> FALSE]
    /\ ret = [t \in Threads |-> "none"]
    /\ returned = NoReturn
    /\ resp = NoResp
    /\ held = [obj |-> "none", seen |-> << >>, value |-> << >>]
    /\ scans = 0

\* the lists of buyer records something still refers to: the values of the
\* dict, the flagged entries (in the list or taken out of it by a sort), a
\* thread's local buyers and the list a thread is about to append to
UsedIds ==
    IdsOf(token_buyers) \cup EntryIds(flagged_tokens)
        \cup UNION {EntryIds(saved[t]) : t \in Threads}
        \cup {flag[t].buyers_id : t \in {u \in Threads : flag[u].buyers_id # 0}}
        \cup {call[t].id : t \in {u \in Threads : pc[u] = "append"}}

\* list.append(rec) on the list object id, seen through a thread's local
SyncLocal(f, id, rec) ==
    IF f.buyers_id = id THEN [f EXCEPT !.buyers = Append(@, rec)] ELSE f

(***************************************************************************)
(* scan_top_traders, lines 102-119: reset and discovery.                   *)
(***************************************************************************)

\* a reset that forgets self.token_buyers
ResetKeepBuyers(tb) == tb

\* line 107
ResetBuyers(tb) == << >>

\* a reset that forgets self.tracked_wallets
ResetKeepWallets(tw) == tw

\* line 108
ResetWallets(tw) == << >>

\* line 109
ResetFlagged(ft) == << >>

\* a reset that binds self.flagged_tokens to a new list: the list handed
\* out before is left behind with the contents it had
HeldAfterRebind(h, ft) ==
    IF h.obj = "self" THEN [h EXCEPT !.obj = "detached", !.value = ft] ELSE h

\* line 109: clear() empties the list object in place, so a holder of
\* self.flagged_tokens still holds the list the tracker uses
HeldAfterClear(h, ft) == h

\* lines 102-107: the call starts; token_buyers.clear().  The lists that
\* were the dict's values live on in whatever else refers to them.
\* returned is no state of the program but the note of an observer of the
\* calls: one who remembers keeps what the last scan that returned,
\* returned; one who does not, drops it when the next call starts
ScanReset(t, remember) ==
    /\ pc[t] = "idle"
    /\ scans < MaxScans
    /\ scans' = scans + 1
    /\ \E mb \in MinBuyersOf(t) : min_buyers' = [min_buyers EXCEPT ![t] = mb]
    /\ token_buyers' = ResetBuyers(token_buyers)
    /\ dirty' = [dirty EXCEPT ![t] = tracked_wallets # << >> \/ token_buyers # << >>
                                     \/ flagged_tokens # << >>]
    /\ pc' = [pc EXCEPT ![t] = "clear_wallets"]
    /\ ret' = [ret EXCEPT ![t] = "none"]
    /\ returned' = IF remember THEN returned ELSE NoReturn
    /\ resp' = NoResp
    /\ UNCHANGED <<tracked_wallets, flagged_tokens, in_sort, top_traders, idx,
                   call, iter, flag, saved, answers, held>>

\* line 108: tracked_wallets.clear()
ClearWallets(t) ==
    /\ pc[t] = "clear_wallets"
    /\ tracked_wallets' = ResetWallets(tracked_wallets)
    /\ pc' = [pc EXCEPT ![t] = "clear_flagged"]
    /\ UNCHANGED <<token_buyers, flagged_tokens, in_sort, idx, call, iter, flag,
                   saved, scan, outside>>

\* line 109: flagged_tokens.clear().  On a list that has no items (an empty
\* one, or one whose items a sort has taken out) clear() does nothing; on
\* any other it also takes away the mark of a sort
ClearFlagged(t) ==
    /\ pc[t] = "clear_flagged"
    /\ flagged_tokens' = ResetFlagged(flagged_tokens)
    /\ in_sort' = IF flagged_tokens = << >> THEN in_sort ELSE FALSE
    /\ held' = HeldAfterClear(held, flagged_tokens)
    /\ pc' = [pc EXCEPT ![t] = "discover"]
    /\ UNCHANGED <<tracked_wallets, token_buyers, idx, call, iter, flag, saved,
                   scan, ret, returned, resp, scans>>

\* lines 113-119: the call of get_top_traders raises, in no try, and the
\* exception leaves scan_top_traders; or it answers.  The SolanaAPIClient of
\* src/api_client.py, which line 8 builds, has no method get_top_traders:
\* with it the attribute lookup of line 113 raises AttributeError in every
\* scan; the answers are those of a provider that has the method
Discover(t, lists) ==
    /\ pc[t] = "discover"
    /\ \/ /\ pc' = [pc EXCEPT ![t] = "raised"]
          /\ UNCHANGED <<top_traders, idx>>
       \/ \E tt \in lists :
            /\ top_traders' = [top_traders EXCEPT ![t] = tt]
            /\ IF TradersFalsy(tt)
               THEN pc' = [pc EXCEPT ![t] = "done"] /\ idx' = idx
               ELSE pc' = [pc EXCEPT ![t] = "loop"] /\ idx' = [idx EXCEPT ![t] = 1]
    /\ UNCHANGED <<tracker, min_buyers, call, iter, flag, saved, answers, dirty,
                   outside>>

(***************************************************************************)
(* scan_top_traders, lines 127-150: the loop over top_traders, and the     *)
(* call of analyze_wallet_trades in it.                                    *)
(***************************************************************************)

\* an except clause that gives up the rest of the batch
AfterExceptionBreak(i, n) == n + 1

\* lines 148-150: the except clause; the loop goes on with the next trader
AfterException(i, n) == i + 1

\* a store that keeps every analysis result, whatever its status
StoreAlways(tw, wd) == StoreWallet(tw, wd)

\* lines 141-143
StoreIfActive(tw, wd) == IF wd.status = "active" THEN StoreWallet(tw, wd) ELSE tw

\* where the loop of line 127 stands after one trader
LoopPc(i, n) == IF i > n THEN "finalize" ELSE "loop"

\* the call of thread t goes on from outcome o
Land(t, wallet, p, o) ==
    LET n == Len(top_traders[t].items)
        c == [wallet |-> wallet, payload |-> p, part |-> o.part, k |-> o.k,
              positions |-> o.positions, info |-> o.info, id |-> 0,
              wallet_data |-> o.wallet_data]
    IN  CASE o.at = "record" ->
               /\ call' = [call EXCEPT ![t] = c]
               /\ pc' = [pc EXCEPT ![t] = "getlist"]
               /\ idx' = idx
          [] o.at = "return" ->
               /\ call' = [call EXCEPT ![t] = c]
               /\ pc' = [pc EXCEPT ![t] = "store"]
               /\ idx' = idx
          [] OTHER ->
               /\ call' = [call EXCEPT ![t] = NoCall]
               /\ pc' = [pc EXCEPT ![t] = LoopPc(AfterException(idx[t], n), n)]
               /\ idx' = [idx EXCEPT ![t] = AfterException(idx[t], n)]

\* lines 127-139 and 15-45: the loop takes the next trader; for one with an
\* address get_wallet_pnl answers, and the call runs on its locals up to its
\* first use of self.token_buyers, its return or its exception
AnalyzeTrader(t, payloads) ==
    /\ pc[t] = "loop"
    /\ LET n == Len(top_traders[t].items)
           trader == top_traders[t].items[idx[t]]
           w == WalletAddress(trader)
       IN  IF ~Truthy(w)
           THEN /\ idx' = [idx EXCEPT ![t] = @ + 1]
                /\ pc' = [pc EXCEPT ![t] = LoopPc(idx[t] + 1, n)]
                /\ UNCHANGED <<call, answers>>
           ELSE IF ProgressRaises(idx[t], trader)
           THEN /\ pc' = [pc EXCEPT ![t] = "raised"]
                /\ UNCHANGED <<call, answers, idx>>
           ELSE \E p \in payloads :
                  /\ answers' = [answers EXCEPT ![t] =
                        Append(@, [idx |-> idx[t], wallet |-> w, payload |-> p])]
                  /\ Land(t, w, p, Start(w, p))
    /\ UNCHANGED <<tracker, min_buyers, top_traders, iter, flag, saved, dirty,
                   outside>>

\* line 48 or 77, the subscription self.token_buyers[token_address]: the
\* defaultdict hands out the list of the key, a new one for a new key
GetBuyersList(t) ==
    /\ pc[t] = "getlist"
    /\ LET g == GetList(token_buyers, call[t].info.token_address, UsedIds)
       IN  /\ token_buyers' = g.tb
           /\ call' = [call EXCEPT ![t].id = g.id]
    /\ pc' = [pc EXCEPT ![t] = "append"]
    /\ UNCHANGED <<tracked_wallets, flagged_tokens, in_sort, idx, iter, flag,
                   saved, scan, outside>>

\* lines 48-54 or 77-83, the append to the list handed out, wherever that
\* list is by now; then the call runs on to its next use of
\* self.token_buyers, its return or its exception
AppendRecord(t) ==
    /\ pc[t] = "append"
    /\ LET c == call[t]
           rec == BuyerRecord(c.part, c.wallet, c.info)
       IN  /\ token_buyers' = Record(token_buyers, c.id, c.part, c.wallet, c.info)
           /\ flagged_tokens' = SyncAppend(flagged_tokens, c.id, rec)
           /\ saved' = [u \in Threads |-> SyncAppend(saved[u], c.id, rec)]
           /\ flag' = [u \in Threads |-> SyncLocal(flag[u], c.id, rec)]
           /\ Land(t, c.wallet, c.payload,
                   Seek(c.wallet, c.payload, c.part, c.k + 1, c.positions))
    /\ UNCHANGED <<tracked_wallets, in_sort, iter, scan, outside>>

\* lines 139-146: the call has returned; an active result is stored
StoreResult(t) ==
    /\ pc[t] = "store"
    /\ tracked_wallets' = StoreIfActive(tracked_wallets, call[t].wallet_data)
    /\ call' = [call EXCEPT ![t] = NoCall]
    /\ idx' = [idx EXCEPT ![t] = @ + 1]
    /\ pc' = [pc EXCEPT ![t] = LoopPc(idx[t] + 1, Len(top_traders[t].items))]
    /\ UNCHANGED <<token_buyers, flagged_tokens, in_sort, iter, flag, saved,
                   scan, outside>>

(***************************************************************************)
(* scan_top_traders, lines 160-197: flagging and sorting.                  *)
(***************************************************************************)

\* line 160: the iterator over self.token_buyers.items() is made
IterTokens(t) ==
    /\ pc[t] = "finalize"
    /\ iter' = [iter EXCEPT ![t] = [pos |-> 1, used |-> Len(token_buyers)]]
    /\ pc' = [pc EXCEPT ![t] = "next_token"]
    /\ UNCHANGED <<tracker, idx, call, flag, saved, scan, outside>>

\* line 160: the iterator's next item.  It raises RuntimeError when the dict
\* no longer has the size it had when the iterator was made
NextToken(t) ==
    /\ pc[t] = "next_token"
    /\ IF Len(token_buyers) # iter[t].used
       THEN /\ pc' = [pc EXCEPT ![t] = "raised"]
            /\ UNCHANGED <<iter, flag>>
       ELSE IF iter[t].pos > Len(token_buyers)
       THEN /\ pc' = [pc EXCEPT ![t] = "sort"]
            /\ UNCHANGED <<iter, flag>>
       ELSE /\ flag' = [flag EXCEPT ![t] =
                  [NoFlag EXCEPT !.token = token_buyers[iter[t].pos].token,
                                 !.buyers_id = token_buyers[iter[t].pos].id,
                                 !.buyers = token_buyers[iter[t].pos].buyers]]
            /\ iter' = [iter EXCEPT ![t].pos = @ + 1]
            /\ pc' = [pc EXCEPT ![t] = "threshold"]
    /\ UNCHANGED <<tracker, idx, call, saved, scan, outside>>

\* lines 161-164: len(buyers) against min_buyers; buyers[0] of a list that
\* meets a positive threshold is there and stays what it is
CheckThreshold(t) ==
    /\ pc[t] = "threshold"
    /\ IF MeetsThreshold(flag[t].buyers, min_buyers[t])
       THEN /\ flag' = [flag EXCEPT ![t].symbol = flag[t].buyers[1].wallet,
                                    ![t].name = Str("Unknown")]
            /\ pc' = [pc EXCEPT ![t] = "iter_wallets"]
       ELSE /\ flag' = [flag EXCEPT ![t] = NoFlag]
            /\ pc' = [pc EXCEPT ![t] = "next_token"]
    /\ UNCHANGED <<tracker, idx, call, iter, saved, scan, outside>>

\* line 167: the iterator over self.tracked_wallets.values() is made
IterWallets(t) ==
    /\ pc[t] = "iter_wallets"
    /\ flag' = [flag EXCEPT ![t].witer =
                   [pos |-> 1, used |-> Len(tracked_wallets)]]
    /\ pc' = [pc EXCEPT ![t] = "next_wallet"]
    /\ UNCHANGED <<tracker, idx, call, iter, saved, scan, outside>>

\* lines 167-172: the iterator's next wallet_data and the inner loop over its
\* positions.  The iterator raises RuntimeError when the dict no longer has
\* the size it had when the iterator was made
NextWallet(t) ==
    /\ pc[t] = "next_wallet"
    /\ LET f == flag[t]
       IN  IF Len(tracked_wallets) # f.witer.used
           THEN /\ pc' = [pc EXCEPT ![t] = "raised"]
                /\ flag' = flag
           ELSE IF f.witer.pos > Len(tracked_wallets)
           THEN /\ pc' = [pc EXCEPT ![t] = "holders"]
                /\ flag' = flag
           ELSE LET sn == SymbolStep([symbol |-> f.symbol, name |-> f.name],
                                     tracked_wallets[f.witer.pos], f.token)
                IN  /\ flag' = [flag EXCEPT ![t].symbol = sn.symbol,
                                            ![t].name = sn.name,
                                            ![t].witer.pos = @ + 1]
                    /\ pc' = pc
    /\ UNCHANGED <<tracker, idx, call, iter, saved, scan, outside>>

\* line 175: holders, of the list as it is when the comprehension ends
CountHolders(t) ==
    /\ pc[t] = "holders"
    /\ flag' = [flag EXCEPT ![t].holders = CountStatus(flag[t].buyers, "holding")]
    /\ pc' = [pc EXCEPT ![t] = "sellers"]
    /\ UNCHANGED <<tracker, idx, call, iter, saved, scan, outside>>

\* line 176: sellers
CountSellers(t) ==
    /\ pc[t] = "sellers"
    /\ flag' = [flag EXCEPT ![t].sellers = CountStatus(flag[t].buyers, "sold")]
    /\ pc' = [pc EXCEPT ![t] = "sum"]
    /\ UNCHANGED <<tracker, idx, call, iter, saved, scan, outside>>

\* line 179: sum(b['pnl'] for b in buyers)
SumBuyers(t) ==
    /\ pc[t] = "sum"
    /\ flag' = [flag EXCEPT ![t].sum = SumPnl(flag[t].buyers, 1, Zero)]
    /\ pc' = [pc EXCEPT ![t] = "avg_len"]
    /\ UNCHANGED <<tracker, idx, call, iter, saved, scan, outside>>

\* line 179: the divisor len(buyers)
AvgLen(t) ==
    /\ pc[t] = "avg_len"
    /\ flag' = [flag EXCEPT ![t].avg_len = Len(flag[t].buyers)]
    /\ pc' = [pc EXCEPT ![t] = "total"]
    /\ UNCHANGED <<tracker, idx, call, iter, saved, scan, outside>>

\* line 185: total_buyers
TotalBuyers(t) ==
    /\ pc[t] = "total"
    /\ flag' = [flag EXCEPT ![t].total = Len(flag[t].buyers)]
    /\ pc' = [pc EXCEPT ![t] = "flag"]
    /\ UNCHANGED <<tracker, idx, call, iter, saved, scan, outside>>

\* lines 181-194: the entry is appended to self.flagged_tokens, which ends
\* the mark of a sort on that list; then the console write of line 194
AppendFlaggedEntry(t) ==
    /\ pc[t] = "flag"
    /\ LET f == flag[t]
       IN  /\ flagged_tokens' =
                 Append(flagged_tokens,
                        Flagged(f.token, f.symbol, f.name, f.total, f.holders,
                                f.sellers, <<f.sum, f.avg_len>>, f.buyers,
                                f.buyers_id))
           /\ pc' = [pc EXCEPT ![t] =
                 IF SymbolFormatRaises(f.symbol) THEN "raised" ELSE "next_token"]
    /\ in_sort' = FALSE
    /\ flag' = [flag EXCEPT ![t] = NoFlag]
    /\ UNCHANGED <<tracked_wallets, token_buyers, idx, call, iter, saved, scan,
                   outside>>

\* line 197, list.sort begins: it takes the items out of the list, which is
\* empty and marked while the key function runs on them.  A list without
\* items is sorted at once, and stays as it is
SortBegin(t) ==
    /\ pc[t] = "sort"
    /\ IF flagged_tokens = << >>
       THEN /\ pc' = [pc EXCEPT ![t] = "done"]
            /\ UNCHANGED <<flagged_tokens, in_sort, saved>>
       ELSE /\ saved' = [saved EXCEPT ![t] = flagged_tokens]
            /\ flagged_tokens' = << >>
            /\ in_sort' = TRUE
            /\ pc' = [pc EXCEPT ![t] = "sorting"]
    /\ iter' = [iter EXCEPT ![t] = NoIter]
    /\ UNCHANGED <<tracked_wallets, token_buyers, idx, call, flag, scan, outside>>

\* line 197, list.sort ends: the items come back sorted in place of
\* whatever the list holds by now; when the mark is gone the list was
\* modified during the sort, which raises ValueError
SortEnd(t) ==
    /\ pc[t] = "sorting"
    /\ flagged_tokens' = SortByBuyers(saved[t])
    /\ in_sort' = FALSE
    /\ saved' = [saved EXCEPT ![t] = << >>]
    /\ pc' = [pc EXCEPT ![t] = IF in_sort THEN "done" ELSE "raised"]
    /\ UNCHANGED <<tracked_wallets, token_buyers, idx, call, iter, flag, scan,
                   outside>>

\* an exception leaves scan_top_traders; both callers catch it (app.py lines
\* 29-30 and 88-92), and the tracker stays as the scan left it
Abort(t) ==
    /\ pc[t] = "raised"
    /\ ret' = [ret EXCEPT ![t] = "raised"]
    /\ pc' = [pc EXCEPT ![t] = "idle"]
    /\ min_buyers' = [min_buyers EXCEPT ![t] = 0]
    /\ top_traders' = [top_traders EXCEPT ![t] = NoTraders]
    /\ idx' = [idx EXCEPT ![t] = 0]
    /\ call' = [call EXCEPT ![t] = NoCall]
    /\ iter' = [iter EXCEPT ![t] = NoIter]
    /\ flag' = [flag EXCEPT ![t] = NoFlag]
    /\ answers' = [answers EXCEPT ![t] = << >>]
    /\ dirty' = [dirty EXCEPT ![t] = FALSE]
    /\ UNCHANGED <<tracker, saved, returned, resp, held, scans>>

\* the object a return statement hands out: a new empty list (line 117) or
\* self.flagged_tokens itself (line 207)
ReturnedObject(tt) == IF TradersFalsy(tt) THEN "fresh" ELSE "self"

\* the contents of a returned object
Contents(obj, ft) == IF obj = "self" THEN ft ELSE << >>

\* line 117 or line 207: the call returns
Return(t) ==
    /\ pc[t] = "done"
    /\ ret' = [ret EXCEPT ![t] = ReturnedObject(top_traders[t])]
    /\ returned' = [known |-> TRUE,
                    value |-> Contents(ReturnedObject(top_traders[t]), flagged_tokens)]
    /\ pc' = [pc EXCEPT ![t] = "idle"]
    /\ min_buyers' = [min_buyers EXCEPT ![t] = 0]
    /\ top_traders' = [top_traders EXCEPT ![t] = NoTraders]
    /\ idx' = [idx EXCEPT ![t] = 0]
    /\ answers' = [answers EXCEPT ![t] = << >>]
    /\ dirty' = [dirty EXCEPT ![t] = FALSE]
    /\ UNCHANGED <<tracker, call, iter, flag, saved, resp, held, scans>>

(***************************************************************************)
(* The queries.                                                            *)
(***************************************************************************)
\* line 215
FlaggedValue(ft) == ft

\* a query is served by a thread that is not inside a scan, at any moment of
\* a scan another thread runs
GetFlaggedTokens(t) ==
    /\ pc[t] = "idle"
    /\ resp' = [op |-> "flagged", value |-> FlaggedValue(flagged_tokens)]
    /\ UNCHANGED <<tracker, pc, idx, call, iter, flag, saved, scan, ret,
                   returned, held, scans>>

\* line 211: list(self.tracked_wallets.values()), a new list of the values
GetTrackedWallets(t) ==
    /\ pc[t] = "idle"
    /\ resp' = [op |-> "wallets", value |-> tracked_wallets]
    /\ UNCHANGED <<tracker, pc, idx, call, iter, flag, saved, scan, ret,
                   returned, held, scans>>

\* line 215 returns self.flagged_tokens itself
FlaggedObject == "self"

\* the contents of a held object
HeldContents(h, ft) == IF h.obj = "self" THEN ft ELSE h.value

\* a caller keeps the list the last scan or the last get_flagged_tokens
\* handed to it, instead of dropping it when src/app.py has serialised it
KeepResult(t) ==
    /\ pc[t] = "idle"
    /\ \/ /\ ret[t] \notin {"none", "raised"}
          /\ returned.known
          /\ held' = [obj |-> ret[t], seen |-> returned.value,
                      value |-> returned.value]
       \/ /\ resp.op = "flagged"
          /\ held' = [obj |-> FlaggedObject, seen |-> resp.value,
                      value |-> resp.value]
    /\ UNCHANGED <<tracker, pc, idx, call, iter, flag, saved, scan, ret,
                   returned, resp, scans>>

(***************************************************************************)
(* Specifications.  Spec: one caller, scans one after the other.           *)
(* SpecConc: the request handler and the scheduler job, which src/app.py   *)
(* runs in different threads with no lock between them.  SpecQuery: one   *)
(* caller, and an observer who remembers across later calls what the last *)
(* scan that returned, returned.                                           *)
(***************************************************************************)
Step(t, lists, payloads, remember) ==
    \/ ScanReset(t, remember)
    \/ ClearWallets(t)
    \/ ClearFlagged(t)
    \/ Discover(t, lists)
    \/ AnalyzeTrader(t, payloads)
    \/ GetBuyersList(t)
    \/ AppendRecord(t)
    \/ StoreResult(t)
    \/ IterTokens(t)
    \/ NextToken(t)
    \/ CheckThreshold(t)
    \/ IterWallets(t)
    \/ NextWallet(t)
    \/ CountHolders(t)
    \/ CountSellers(t)
    \/ SumBuyers(t)
    \/ AvgLen(t)
    \/ TotalBuyers(t)
    \/ AppendFlaggedEntry(t)
    \/ SortBegin(t)
    \/ SortEnd(t)
    \/ Abort(t)
    \/ Return(t)
    \/ GetFlaggedTokens(t)
    \/ GetTrackedWallets(t)

Next == Step("request", TraderLists, Payloads, FALSE)

Spec == Init /\ [][Next]_vars

SpecQuery == Init /\ [][Step("request", TraderLists, Payloads, TRUE)]_vars

\* provider answers of the two-caller specification
ConcTraderLists ==
    { NoTraders,
      List(<<W1Trader>>),
      List(<<W1Trader, W2Trader>>),
      List(<<BadPnlTrader>>) }

ConcPayloads == { NonePayload, Dict(List(<<OpenX>>), NoList, NoData) }

NextConc == \E t \in Threads : Step(t, ConcTraderLists, ConcPayloads, FALSE)

SpecConc == Init /\ [][NextConc]_vars

\* one caller that may keep a list it was handed while it scans again
NextHold ==
    \/ Step("request", ConcTraderLists, ConcPayloads, FALSE)
    \/ KeepResult("request")

SpecHold == Init /\ [][NextHold]_vars

(***************************************************************************)
(* Helpers of the properties.                                              *)
(***************************************************************************)
AllTokens == {Str("X"), Str("Y")}

\* the value a scan standing at its return statement is about to return
Result(t) == Contents(ReturnedObject(top_traders[t]), flagged_tokens)

FlaggedTokenSet(ft) == {ft[i].token_address : i \in 1..Len(ft)}

\* no wallet occurs twice in a list of buyer records
DistinctWallets(buyers) ==
    \A i, j \in 1..Len(buyers) : buyers[i].wallet = buyers[j].wallet => i = j

\* no token occurs twice in a position list
DistinctTokens(positions) ==
    \A i, j \in 1..Len(positions) :
        positions[i].token_address = positions[j].token_address => i = j

\* what the answers of a log, replayed on an empty tracker, leave in it
RECURSIVE Replay(_, _, _)
Replay(log, i, st) ==
    IF i > Len(log) THEN st
    ELSE LET r == analyze_wallet_trades(log[i].wallet, log[i].payload, st.tb)
         IN  Replay(log, i + 1,
                [tb |-> r.tb,
                 tw |-> IF r.raised THEN st.tw
                        ELSE StoreIfActive(st.tw, r.wallet_data)])

FromScratch(t) == Replay(answers[t], 1, [tb |-> << >>, tw |-> << >>])

\* what one answer alone yields
Alone(a) == analyze_wallet_trades(a.wallet, a.payload, << >>)

\* the positions of the top-trader list that carry a wallet address
Addressed(tt) ==
    {i \in 1..Len(tt.items) : Truthy(WalletAddress(tt.items[i]))}

Fetched(t) == {answers[t][k].idx : k \in 1..Len(answers[t])}

\* C1: a scan returns exactly the tokens whose accumulated record count is
\* >= min_buyers, each once, and total_buyers is the length of buyers
C1_FlaggedIffThreshold ==
    \A t \in Threads : pc[t] = "done" =>
        /\ FlaggedTokenSet(Result(t)) =
              {tok \in AllTokens :
                  Len(BuyersOf(token_buyers, tok)) >= min_buyers[t]}
        /\ Cardinality(FlaggedTokenSet(Result(t))) = Len(Result(t))
        /\ \A i \in 1..Len(Result(t)) :
              /\ Result(t)[i].total_buyers = Len(Result(t)[i].buyers)
              /\ Result(t)[i].buyers =
                    BuyersOf(token_buyers, Result(t)[i].token_address)

\* a scan with min_buyers = 2 returns a token with exactly two records and
\* leaves out a token with exactly one
C1_Witness ==
    /\ pc["request"] = "done"
    /\ min_buyers["request"] = 2
    /\ \E a, b \in AllTokens :
          /\ Len(BuyersOf(token_buyers, a)) = 1
          /\ Len(BuyersOf(token_buyers, b)) = 2
          /\ FlaggedTokenSet(Result("request")) = {b}

\* C2: no wallet occurs twice in a flagged entry's buyers list and no token
\* occurs twice in a stored position list
C2_Deduplicated ==
    /\ \A i \in 1..Len(flagged_tokens) : DistinctWallets(flagged_tokens[i].buyers)
    /\ \A i \in 1..Len(tracked_wallets) : DistinctTokens(tracked_wallets[i].positions)

\* C3: right after the reset the tracker is empty, and at the end of a scan
\* the tracker holds what this scan's answers alone produce
C3_OnlyThisScan ==
    \A t \in Threads :
        /\ pc[t] = "discover" =>
              tracked_wallets = << >> /\ token_buyers = << >> /\ flagged_tokens = << >>
        /\ pc[t] = "done" =>
              LET fs == FromScratch(t)
              IN  /\ token_buyers = fs.tb
                  /\ tracked_wallets = fs.tw
                  /\ flagged_tokens =
                        IF TradersFalsy(top_traders[t]) THEN << >>
                        ELSE SortByBuyers(AppendFlagged(<< >>, fs.tb, fs.tw,
                                                        min_buyers[t], 1))

\* a scan that started on a tracker holding data ends with its own data
C3_Witness ==
    /\ pc["request"] = "done"
    /\ dirty["request"]
    /\ tracked_wallets # << >>
    /\ flagged_tokens # << >>

\* C4: when the scan returns, every trader with an address was fetched,
\* however many analyses raised; every analysis that returned active is
\* stored, and each of its positions has its record in token_buyers
C4_FailureContained ==
    \A t \in Threads :
        (pc[t] = "done" /\ ~TradersFalsy(top_traders[t])) =>
            /\ Fetched(t) = Addressed(top_traders[t])
            /\ Len(answers[t]) = Cardinality(Addressed(top_traders[t]))
            /\ \A k \in 1..Len(answers[t]) :
                  LET r == Alone(answers[t][k])
                  IN  (~r.raised /\ r.wallet_data.status = "active") =>
                        /\ answers[t][k].wallet \in WalletsOf(tracked_wallets)
                        /\ \A j \in 1..Len(r.wallet_data.positions) :
                              LET bs == BuyersOf(token_buyers,
                                          r.wallet_data.positions[j].token_address)
                              IN  \E b \in 1..Len(bs) :
                                     bs[b].wallet = answers[t][k].wallet

\* the first trader's analysis raised, the one after it was analysed and
\* stored, and the scan is about to return a flagged token
C4_Witness ==
    /\ pc["request"] = "done"
    /\ Len(answers["request"]) = 2
    /\ Alone(answers["request"][1]).raised
    /\ answers["request"][1].wallet # answers["request"][2].wallet
    /\ WalletsOf(tracked_wallets) = {answers["request"][2].wallet}
    /\ flagged_tokens # << >>

\* C5: a scan whose discovery is None or empty returns an empty sequence,
\* fetches no subject and leaves all three structures empty
C5_EmptyDiscovery ==
    \A t \in Threads :
        (pc[t] = "done" /\ TradersFalsy(top_traders[t])) =>
            /\ Result(t) = << >>
            /\ answers[t] = << >>
            /\ tracked_wallets = << >>
            /\ token_buyers = << >>
            /\ flagged_tokens = << >>

\* an empty discovery in a scan that started on a tracker holding data
C5_Witness ==
    /\ pc["request"] = "done"
    /\ TradersFalsy(top_traders["request"])
    /\ top_traders["request"].tag = "list"
    /\ dirty["request"]

\* C6: the result is ordered by total_buyers descending, and entries with
\* equal total_buyers in the order in which their tokens first got a record
C6_OrderedByCountThenDiscovery ==
    \A t \in Threads : pc[t] = "done" =>
        \A i, j \in 1..Len(Result(t)) : i < j =>
            \/ Result(t)[i].total_buyers > Result(t)[j].total_buyers
            \/ /\ Result(t)[i].total_buyers = Result(t)[j].total_buyers
               /\ IndexOf(token_buyers, Result(t)[i].token_address)
                  < IndexOf(token_buyers, Result(t)[j].token_address)

\* two flagged tokens with the same count, Y discovered before X
C6_Witness ==
    /\ pc["request"] = "done"
    /\ Len(flagged_tokens) = 2
    /\ flagged_tokens[1].total_buyers = flagged_tokens[2].total_buyers
    /\ flagged_tokens[1].token_address = Str("Y")
    /\ token_buyers[1].token = Str("Y")

\* C7 as stated: every holder record has status holding
C7_OnlyHoldingRecorded ==
    \A i \in 1..Len(token_buyers) :
        \A j \in 1..Len(token_buyers[i].buyers) :
            token_buyers[i].buyers[j].status = "holding"

\* a scan stands between the statements of its reset
MidReset == \E t \in Threads : pc[t] \in {"clear_wallets", "clear_flagged"}

\* C7 amended: every stored position, holding or sold, has a record of its
\* wallet with its status in the token's list (a sold one with balance 0),
\* and a flagged entry counts both: total_buyers = still_holding + sold_out
\* (outside the reset, which empties the lists before the store)
C7_EveryPositionRecorded ==
    /\ MidReset \/ \A i \in 1..Len(tracked_wallets) :
          \A j \in 1..Len(tracked_wallets[i].positions) :
             LET pos == tracked_wallets[i].positions[j]
                 bs == BuyersOf(token_buyers, pos.token_address)
             IN  \E b \in 1..Len(bs) :
                    /\ bs[b].wallet = tracked_wallets[i].wallet
                    /\ bs[b].status = pos.status
                    /\ bs[b].balance = pos.balance
    /\ \A i \in 1..Len(flagged_tokens) :
          /\ flagged_tokens[i].total_buyers =
                flagged_tokens[i].still_holding + flagged_tokens[i].sold_out
          /\ flagged_tokens[i].sold_out =
                CountStatus(flagged_tokens[i].buyers, "sold")
          /\ \A b \in 1..Len(flagged_tokens[i].buyers) :
                flagged_tokens[i].buyers[b].status = "sold" =>
                    flagged_tokens[i].buyers[b].balance = Zero

\* a token is flagged only thanks to a sold record
C7_Witness ==
    /\ pc["request"] = "done"
    /\ \E i \in 1..Len(flagged_tokens) :
          /\ flagged_tokens[i].still_holding < min_buyers["request"]
          /\ flagged_tokens[i].total_buyers >= min_buyers["request"]
          /\ flagged_tokens[i].sold_out > 0

\* C8: between scans get_flagged_tokens answers what the most recently
\* completed scan returned (nothing before the first one returned),
\* get_tracked_wallets answers the store, and neither changes the tracker
C8_QueriesReflectLastScan ==
    /\ [](resp.op = "flagged" =>
             resp.value = IF returned.known THEN returned.value ELSE << >>)
    /\ [](resp.op = "wallets" => resp.value = tracked_wallets)
    /\ [][resp' # resp /\ resp'.op # "none" => UNCHANGED tracker]_vars

\* C9: at most one caller is inside scan_top_traders
C9_MutualExclusion ==
    ~(pc["request"] # "idle" /\ pc["scheduler"] # "idle")

\* C10: no analysis of a payload the provider answered raises
C10_NormalizationNeverRaises ==
    \A t \in Threads :
        \A k \in 1..Len(answers[t]) :
            answers[t][k].payload.kind # "raise" => ~Alone(answers[t][k]).raised

(***************************************************************************)
(* Delta classification, as the engine's design describes it (section      *)
(* 4.3): a pure function of the previous and the current position list.    *)
(* WalletTracker has no such function; this is the value the stored record *)
(* is expected to carry.                                                   *)
(***************************************************************************)
HeldTokens(positions) ==
    {positions[i].token_address : i \in 1..Len(positions)}

\* positions keyed by token: the last entry of a token gives its quantity
QuantityOf(positions, tok) ==
    LET last == CHOOSE i \in 1..Len(positions) :
                    /\ positions[i].token_address = tok
                    /\ \A j \in 1..Len(positions) :
                          positions[j].token_address = tok => j <= i
    IN  positions[last].balance

SoldTokens(prev, cur) ==
    {tok \in HeldTokens(prev) :
        tok \notin HeldTokens(cur) \/ QuantityOf(cur, tok) = Zero}

ReducedTokens(prev, cur) ==
    {tok \in HeldTokens(prev) :
        /\ tok \in HeldTokens(cur)
        /\ Less(QuantityOf(cur, tok), QuantityOf(prev, tok))}

DeltaStatus(prev, cur) ==
    IF cur = << >> THEN "sold_all"
    ELSE IF SoldTokens(prev, cur) = HeldTokens(prev) THEN "sold_all"
    ELSE IF SoldTokens(prev, cur) # {} \/ ReducedTokens(prev, cur) # {}
         THEN "sold_partially"
    ELSE "holding"

\* the delta_status field of a stored record, "absent" when it has none
DeltaStatusOf(wd) ==
    IF "delta_status" \in DOMAIN wd THEN wd.delta_status ELSE "absent"

\* the position lists this scan stored for a wallet, oldest first
RECURSIVE Snapshots(_, _, _)
Snapshots(log, wallet, i) ==
    IF i > Len(log) THEN << >>
    ELSE LET r == Alone(log[i])
             rest == Snapshots(log, wallet, i + 1)
         IN  IF log[i].wallet = wallet /\ ~r.raised
                /\ r.wallet_data.status = "active"
             THEN <<r.wallet_data.positions>> \o rest
             ELSE rest

\* C11: a stored record carries delta_status: holding when the subject is
\* stored for the first time, and otherwise the classification of its
\* previous against its current position list
C11_DeltaClassified ==
    \A t \in Threads : pc[t] = "done" =>
        \A i \in 1..Len(tracked_wallets) :
            LET snaps == Snapshots(answers[t], tracked_wallets[i].wallet, 1)
                n == Len(snaps)
            IN  /\ n >= 1
                /\ DeltaStatusOf(tracked_wallets[i]) =
                      IF n = 1 THEN "holding"
                      ELSE DeltaStatus(snaps[n - 1], snaps[n])

\* what each answer of a log yields alone
Results(log) == [k \in 1..Len(log) |-> Alone(log[k])]

\* the answers whose analysis completed with a position
CompletedActive(res) ==
    {k \in DOMAIN res : ~res[k].raised /\ res[k].wallet_data.status = "active"}

\* the answers whose analysis completed without any position
CompletedEmpty(res) ==
    {k \in DOMAIN res :
        ~res[k].raised /\ res[k].wallet_data.status \in {"no_data", "inactive"}}

\* C12: when a scan returns, tracked_wallets holds exactly the wallets with
\* an analysis that completed with a position, one record per wallet, each
\* the active, non-empty result of such an analysis; an analysis that
\* completed on no data or on no qualifying position stores nothing and
\* appends no record to token_buyers
C12_StoreHoldsExactlyActive ==
    \A t \in Threads : pc[t] = "done" =>
        LET log == answers[t]
            res == Results(log)
            act == CompletedActive(res)
            stored == WalletsOf(tracked_wallets)
        IN  /\ stored = {log[k].wallet : k \in act}
            /\ Len(tracked_wallets) = Cardinality(stored)
            /\ \A i \in 1..Len(tracked_wallets) :
                  /\ tracked_wallets[i].status = "active"
                  /\ Len(tracked_wallets[i].positions) >= 1
                  /\ \E k \in act :
                        /\ log[k].wallet = tracked_wallets[i].wallet
                        /\ tracked_wallets[i] = res[k].wallet_data
            /\ \A k \in CompletedEmpty(res) :
                  /\ res[k].wallet_data.positions = << >>
                  /\ res[k].tb = << >>
                  /\ log[k].wallet \in stored =>
                        \E j \in act : log[j].wallet = log[k].wallet

\* one wallet answered with a payload without any token address, another
\* with a position: only the second is stored
C12_Witness ==
    /\ pc["request"] = "done"
    /\ \E k \in CompletedEmpty(Results(answers["request"])) :
          /\ Alone(answers["request"][k]).wallet_data.status = "inactive"
          /\ answers["request"][k].wallet \notin WalletsOf(tracked_wallets)
    /\ Len(tracked_wallets) = 1
    /\ token_buyers # << >>

\* the wallets named by the records of token_buyers
BuyerWallets(tb) ==
    UNION {{tb[i].buyers[j].wallet : j \in 1..Len(tb[i].buyers)} :
              i \in 1..Len(tb)}

\* C13: when a scan returns, every wallet named by a record of
\* token_buyers, and so by the buyers of a flagged entry, is a key of
\* tracked_wallets
C13_HoldersAreTracked ==
    \A t \in Threads : pc[t] = "done" =>
        /\ BuyerWallets(token_buyers) \subseteq WalletsOf(tracked_wallets)
        /\ \A i \in 1..Len(flagged_tokens) :
              \A j \in 1..Len(flagged_tokens[i].buyers) :
                  flagged_tokens[i].buyers[j].wallet
                      \in WalletsOf(tracked_wallets)

\* C14: a non-empty list handed out by scan_top_traders or by
\* get_flagged_tokens is self.flagged_tokens itself: while a later scan
\* runs the holder reads it emptied, and at that scan's return statement
\* the holder reads what that scan returns
C14_HeldListFollowsTracker ==
    held.seen # << >> =>
        /\ held.obj = "self"
        /\ \A t \in Threads :
              /\ pc[t] \in {"discover", "loop", "getlist", "append", "store",
                          "finalize"} =>
                    HeldContents(held, flagged_tokens) = << >>
              /\ (pc[t] = "done" /\ ~TradersFalsy(top_traders[t])) =>
                    HeldContents(held, flagged_tokens) = Result(t)
              /\ (pc[t] = "idle" /\ returned.known /\ ret[t] = "self") =>
                    HeldContents(held, flagged_tokens) = returned.value

\* a later scan stands at its return statement with a non-empty result, and
\* the list kept from the earlier scan, non-empty then, now reads as the
\* later scan's different result
C14_Witness ==
    /\ pc["request"] = "done"
    /\ held.seen # << >>
    /\ flagged_tokens # << >>
    /\ HeldContents(held, flagged_tokens) = Result("request")
    /\ HeldContents(held, flagged_tokens) # held.seen

====
